---- MODULE Spec2Model ----
(***************************************************************************)
(* A model of src/utils.rs of allms: the tokenizer selection               *)
(* (get_tokenizer), the response sanitizer (remove_json_wrapper), the JSON *)
(* schema derivation (get_type_schema, fix_value_schema) and the           *)
(* percentage-to-range mapping (map_to_range).                             *)
(***************************************************************************)
EXTENDS Integers, Sequences, FiniteSets, TLC

(***************************************************************************)
(* The state: a caller of map_to_range (r), a caller of the schema         *)
(* operations (s), a caller of remove_json_wrapper (w), and the threads    *)
(* that call get_tokenizer, get_type_schema and map_to_range concurrently  *)
(* (t), with the heap and the encoding data they share.                    *)
(***************************************************************************)
VARIABLES rPc, rMin, rMax, rTarget, rResult, rPrev

VARIABLES sMode, sPc, sType, sRootIn, sRoot, sResult

VARIABLES wResponse, wText, wPrevious, wCalls

VARIABLES encodingData, cHeap, tCall, tPc, tLocal, tResult

rangeVars == <<rPc, rMin, rMax, rTarget, rResult, rPrev>>

schemaVars == <<sMode, sPc, sType, sRootIn, sRoot, sResult>>

wrapperVars == <<wResponse, wText, wPrevious, wCalls>>

concVars == <<encodingData, cHeap, tCall, tPc, tLocal, tResult>>

vars == <<rangeVars, schemaVars, wrapperVars, concVars>>

(***************************************************************************)
(* IEEE-754 binary32 arithmetic, as map_to_range uses it.                  *)
(* A float is [neg, m, e] with value (-1)^neg * m * 2^e, kept in reduced   *)
(* form: m is odd, or the float is zero ([neg |-> FALSE, m |-> 0, e |-> 0])*)
(* so that two floats are equal exactly when their records are.  Every     *)
(* operation computes the exact result and rounds it to F32MantBits        *)
(* significant bits, ties to even.  Infinities, NaN, subnormals and the    *)
(* sign of zero play no part: every value map_to_range forms lies between  *)
(* 2^-30 and 2^33 in magnitude, or is zero.                                *)
(***************************************************************************)
F32MantBits == 24

RECURSIVE BitLen(_)
BitLen(n) == IF n = 0 THEN 0 ELSE 1 + BitLen(n \div 2)

RECURSIVE Reduce(_, _, _)
Reduce(neg, m, e) ==
    IF m = 0 THEN [neg |-> FALSE, m |-> 0, e |-> 0]
    ELSE IF m % 2 = 0 THEN Reduce(neg, m \div 2, e + 1)
    ELSE [neg |-> neg, m |-> m, e |-> e]

\* The float nearest to (-1)^neg * (n + f) * 2^e, where 0 < f < 1 if sticky and
\* f = 0 otherwise; ties go to the even mantissa.
RoundF32(neg, n, sticky, e) ==
    LET len == BitLen(n)
    IN  IF len <= F32MantBits THEN Reduce(neg, n, e)
        ELSE LET sh   == len - F32MantBits
                 q    == n \div (2 ^ sh)
                 r    == n % (2 ^ sh)
                 half == 2 ^ (sh - 1)
                 up   == r > half \/ (r = half /\ (sticky \/ q % 2 = 1))
             IN  Reduce(neg, IF up THEN q + 1 ELSE q, e + sh)

\* The same value with a mantissa of exactly F32MantBits bits (m # 0).
Normal(a) ==
    LET sh == F32MantBits - BitLen(a.m)
    IN  [neg |-> a.neg, m |-> a.m * (2 ^ sh), e |-> a.e - sh]

\* `x as f32` for an unsigned integer x.
U32ToF32(x) == RoundF32(FALSE, x, FALSE, 0)

FNeg(a) == IF a.m = 0 THEN a ELSE [a EXCEPT !.neg = ~a.neg]

\* a + b: the operands are aligned on the larger one with three extra bits;
\* what the smaller one loses in the shift is kept as the sticky flag.
FAdd(a, b) ==
    IF a.m = 0 THEN b
    ELSE IF b.m = 0 THEN a
    ELSE LET na  == Normal(a)
             nb  == Normal(b)
             aGe == na.e > nb.e \/ (na.e = nb.e /\ na.m >= nb.m)
             hi  == IF aGe THEN na ELSE nb
             lo  == IF aGe THEN nb ELSE na
             d   == hi.e - lo.e
             A   == hi.m * 8
             x   == lo.m * 8
             B   == IF d >= F32MantBits + 3 THEN 0 ELSE x \div (2 ^ d)
             st  == IF d >= F32MantBits + 3 THEN TRUE ELSE x % (2 ^ d) # 0
         IN  IF hi.neg = lo.neg
             THEN RoundF32(hi.neg, A + B, st, hi.e - 3)
             ELSE IF st THEN RoundF32(hi.neg, A - B - 1, TRUE, hi.e - 3)
             ELSE RoundF32(hi.neg, A - B, FALSE, hi.e - 3)

FSub(a, b) == FAdd(a, FNeg(b))

\* a * b: the 48-bit product of the two 24-bit mantissas is formed from 12-bit
\* halves as hi * 2^24 + lo, so that no intermediate exceeds 31 bits.
FMul(a, b) ==
    IF a.m = 0 \/ b.m = 0 THEN [neg |-> FALSE, m |-> 0, e |-> 0]
    ELSE LET na   == Normal(a)
             nb   == Normal(b)
             a1   == na.m \div 4096
             a0   == na.m % 4096
             b1   == nb.m \div 4096
             b0   == nb.m % 4096
             mid  == a1 * b0 + a0 * b1
             low  == a0 * b0 + (mid % 4096) * 4096
             lo   == low % 16777216
             hi   == a1 * b1 + (mid \div 4096) + (low \div 16777216)
         IN  RoundF32(na.neg # nb.neg, hi * 8 + (lo \div 2097152),
                      lo % 2097152 # 0, na.e + nb.e + 21)

\* a / b for a divisor whose reduced mantissa has at most 5 bits (100.0 is
\* 25 * 2^2): the quotient is formed to at least 25 bits and the remainder is
\* the sticky flag.
FDiv(a, b) ==
    IF a.m = 0 THEN [neg |-> FALSE, m |-> 0, e |-> 0]
    ELSE LET k   == F32MantBits + 1 + BitLen(b.m) - BitLen(a.m)
             num == a.m * (2 ^ k)
         IN  RoundF32(a.neg # b.neg, num \div b.m, num % b.m # 0, a.e - b.e - k)

\* a <= b: rounding a difference never changes its sign.
FLe(a, b) == LET d == FSub(a, b) IN d.m = 0 \/ d.neg

(***************************************************************************)
(* map_to_range: the point of [min, max] at target percent.                *)
(***************************************************************************)
PercentCap == 100

\* CapTarget without the cap (fault: the target is used as given).
UncappedTarget(target) == target

\* target.min(100)
CapTarget(target) == IF target < PercentCap THEN target ELSE PercentCap

\* map_to_range with the range reversed (fault: min - max).
map_to_range_reversed(min, max, target) ==
    LET capped_target == CapTarget(target)
        range         == FSub(U32ToF32(min), U32ToF32(max))
        percentage    == FDiv(U32ToF32(capped_target), U32ToF32(PercentCap))
    IN  FAdd(U32ToF32(min), FMul(range, percentage))

\* map_to_range scaling max instead of the range (fault: min is not subtracted).
map_to_range_scaling_max(min, max, target) ==
    LET capped_target == CapTarget(target)
        percentage    == FDiv(U32ToF32(capped_target), U32ToF32(PercentCap))
    IN  FAdd(U32ToF32(min), FMul(U32ToF32(max), percentage))

map_to_range(min, max, target) ==
    LET capped_target == CapTarget(target)
        range         == FSub(U32ToF32(max), U32ToF32(min))
        percentage    == FDiv(U32ToF32(capped_target), U32ToF32(PercentCap))
    IN  FAdd(U32ToF32(min), FMul(range, percentage))

(***************************************************************************)
(* A caller of map_to_range: one range, a sequence of calls with varying   *)
(* targets.  rPrev remembers the call before the last one.                 *)
(***************************************************************************)
MaxSmall == 3

TwoTo24 == 2 ^ F32MantBits

\* The range ends drawn: small values, the values of the unit tests, and
\* values around 2^24, where u32 values stop being representable in f32.
RangeVals ==
    (0 .. MaxSmall) \cup {10, 20, 100}
        \cup {TwoTo24, TwoTo24 + 1, TwoTo24 + 2, TwoTo24 + 6}

Targets == {0, 25, 33, 50, 100, 101, 200, 3000}

FZero == [neg |-> FALSE, m |-> 0, e |-> 0]

NoCall == [valid |-> FALSE, target |-> 0, result |-> FZero]

RangeInit ==
    /\ rPc = "idle"
    /\ rMin \in RangeVals
    /\ rMax \in RangeVals
    /\ rTarget = 0
    /\ rResult = FZero
    /\ rPrev = NoCall

RangeIdle ==
    /\ rPc = "off"
    /\ rMin = 0
    /\ rMax = 0
    /\ rTarget = 0
    /\ rResult = FZero
    /\ rPrev = NoCall

MapToRange(target) ==
    /\ rPc \in {"idle", "done"}
    /\ rTarget' = target
    /\ rResult' = map_to_range(rMin, rMax, target)
    /\ rPrev' = IF rPc = "done"
                THEN [valid |-> TRUE, target |-> rTarget, result |-> rResult]
                ELSE rPrev
    /\ rPc' = "done"
    /\ UNCHANGED <<rMin, rMax, schemaVars, wrapperVars, concVars>>

(***************************************************************************)
(* Types whose schema is derived.  A type is a struct: a name and its      *)
(* fields, each of a kind: a primitive, serde_json::Value, Option<String>  *)
(* or one of the named structs of the unit tests.                          *)
(***************************************************************************)
MaxFields == 3

FieldNameSeq == <<"a", "b", "c", "d", "e">>

FieldNames(n) == {FieldNameSeq[i] : i \in 1 .. n}

StructNames == {"SimpleStruct", "StructWithValue", "NestedStruct"}

Kinds == {"i32", "String", "Value", "OptString"} \cup StructNames

\* SimpleStruct, StructWithValue and NestedStruct of the test module.
Shapes ==
    [n \in StructNames |->
        CASE n = "SimpleStruct"    -> ("id" :> "i32") @@ ("name" :> "String")
          [] n = "StructWithValue" -> ("data" :> "Value")
          [] n = "NestedStruct"    -> ("info" :> "SimpleStruct")
                                         @@ ("optional_field" :> "OptString")]

RootTypes ==
    {[name |-> n, fields |-> Shapes[n]] : n \in StructNames}
        \cup {[name |-> "Root", fields |-> f] :
                f \in UNION {[FieldNames(n) -> Kinds] : n \in 0 .. MaxFields}}

StructsOf(fields) == {fields[f] : f \in DOMAIN fields} \cap StructNames

\* Every named struct reachable from a set of them.
RECURSIVE Closure(_)
Closure(S) ==
    LET next == S \cup UNION {StructsOf(Shapes[n]) : n \in S}
    IN  IF next = S THEN S ELSE Closure(next)

(***************************************************************************)
(* schemars::schema: Schema is Bool(b) or Object(SchemaObject); an absent  *)
(* Option is "" (strings), <<>> (instance_type) and NoObject (object).     *)
(***************************************************************************)
EmptyMap == [k \in {} |-> TRUE]

NoObject == [some |-> FALSE, properties |-> EmptyMap, required |-> {}]

DefaultSchemaObject ==
    [title |-> "", instance_type |-> <<>>, format |-> "", reference |-> "",
     object |-> NoObject]

SchemaBool(b) == [kind |-> "Bool", b |-> b]

SchemaObj(o) == [kind |-> "Object", o |-> o]

TypedSchema(ty) == SchemaObj([DefaultSchemaObject EXCEPT !.instance_type = ty])

DefinitionRef(n) == "#/definitions/" \o n

MetaSchemaDraft07 == "http://json-schema.org/draft-07/schema#"

\* What schemars generates for a field of each kind: Value is the
\* accept-anything schema Bool(true), a named struct is a reference.
FieldSchema(kind) ==
    CASE kind = "i32"       -> SchemaObj([DefaultSchemaObject EXCEPT
                                   !.instance_type = <<"integer">>,
                                   !.format = "int32"])
      [] kind = "String"    -> TypedSchema(<<"string">>)
      [] kind = "OptString" -> TypedSchema(<<"string", "null">>)
      [] kind = "Value"     -> SchemaBool(TRUE)
      [] OTHER              -> SchemaObj([DefaultSchemaObject EXCEPT
                                   !.reference = DefinitionRef(kind)])

StructSchema(fields) ==
    [DefaultSchemaObject EXCEPT
        !.instance_type = <<"object">>,
        !.object = [some |-> TRUE,
                    properties |-> [f \in DOMAIN fields |-> FieldSchema(fields[f])],
                    required |-> {f \in DOMAIN fields : fields[f] # "OptString"}]]

\* schema_for!(T): the root schema carries the meta schema and the title, and
\* every struct reachable from T once under definitions.
schema_for(T) ==
    [meta_schema |-> MetaSchemaDraft07,
     schema      |-> [StructSchema(T.fields) EXCEPT !.title = T.name],
     definitions |-> [n \in Closure(StructsOf(T.fields)) |->
                         SchemaObj(StructSchema(Shapes[n]))]]

ValueObjectSchema == TypedSchema(<<"object">>)

\* fix_value_schema matching Bool(_) (fault: Bool(false) is replaced too).
fix_any_bool_schema(schema) ==
    IF schema.schema.object.some
    THEN [schema EXCEPT !.schema.object.properties =
            [p \in DOMAIN @ |->
                IF @[p].kind = "Bool" THEN ValueObjectSchema ELSE @[p]]]
    ELSE schema

fix_value_schema(schema) ==
    IF schema.schema.object.some
    THEN [schema EXCEPT !.schema.object.properties =
            [p \in DOMAIN @ |->
                IF @[p] = SchemaBool(TRUE) THEN ValueObjectSchema ELSE @[p]]]
    ELSE schema

(***************************************************************************)
(* serde_json::Value, and serde_json::to_value of a schema.  Absent        *)
(* options and empty maps and sets are skipped, the metadata and the       *)
(* object validation are flattened into their schema object, and the root  *)
(* schema object is flattened into the root.                               *)
(***************************************************************************)
JBool(b) == [t |-> "bool", v |-> b]

JStr(s) == [t |-> "str", v |-> s]

JArr(a) == [t |-> "arr", v |-> a]

JObj(m) == [t |-> "obj", v |-> m]

\* Every key of the model in the order of serde_json's map (by bytes).
KeyOrder ==
    <<"$ref", "$schema", "NestedStruct", "SimpleStruct", "StructWithValue",
      "a", "b", "c", "d", "data", "definitions", "e", "format", "id", "info",
      "name", "optional_field", "properties", "required", "title", "type">>

SortedKeys(S) == SelectSeq(KeyOrder, LAMBDA k : k \in S)

InstanceTypeToValue(ty) ==
    IF Len(ty) = 1 THEN JStr(ty[1]) ELSE JArr([i \in 1 .. Len(ty) |-> JStr(ty[i])])

RECURSIVE SchemaToValue(_)
RECURSIVE SchemaObjectToMap(_)
SchemaObjectToMap(o) ==
    LET keys == {k \in {"title", "type", "format", "properties", "required", "$ref"} :
                    CASE k = "title"      -> o.title # ""
                      [] k = "type"       -> o.instance_type # <<>>
                      [] k = "format"     -> o.format # ""
                      [] k = "properties" -> o.object.some
                                               /\ DOMAIN o.object.properties # {}
                      [] k = "required"   -> o.object.some /\ o.object.required # {}
                      [] k = "$ref"       -> o.reference # ""}
    IN  [k \in keys |->
            CASE k = "title"      -> JStr(o.title)
              [] k = "type"       -> InstanceTypeToValue(o.instance_type)
              [] k = "format"     -> JStr(o.format)
              [] k = "properties" ->
                    JObj([p \in DOMAIN o.object.properties |->
                             SchemaToValue(o.object.properties[p])])
              [] k = "required"   ->
                    LET names == SortedKeys(o.object.required)
                    IN  JArr([i \in 1 .. Len(names) |-> JStr(names[i])])
              [] k = "$ref"       -> JStr(o.reference)]

SchemaToValue(s) ==
    IF s.kind = "Bool" THEN JBool(s.b) ELSE JObj(SchemaObjectToMap(s.o))

to_value(root) ==
    LET flat == SchemaObjectToMap(root.schema)
        keys == DOMAIN flat
                  \cup (IF root.meta_schema # "" THEN {"$schema"} ELSE {})
                  \cup (IF DOMAIN root.definitions # {} THEN {"definitions"} ELSE {})
    IN  JObj([k \in keys |->
                CASE k = "$schema"     -> JStr(root.meta_schema)
                  [] k = "definitions" ->
                        JObj([n \in DOMAIN root.definitions |->
                                 SchemaToValue(root.definitions[n])])
                  [] OTHER             -> flat[k]])

\* Map::remove(key) on a JSON object.
Remove(obj, key) == JObj([k \in DOMAIN obj.v \ {key} |-> obj.v[k]])

(***************************************************************************)
(* serde_json::to_string_pretty and from_str.  The text is a sequence of   *)
(* tokens: punctuation, true, false, a string literal (p = "str", its      *)
(* contents in s), and a line break followed by n two-space indents        *)
(* (p = "nl").                                                             *)
(***************************************************************************)
Tok(p) == [p |-> p, s |-> "", n |-> 0]

StrTok(s) == [p |-> "str", s |-> s, n |-> 0]

NewLine(n) == [p |-> "nl", s |-> "", n |-> n]

RECURSIVE Pretty(_, _)
RECURSIVE PrettyItems(_, _, _)
RECURSIVE PrettyMembers(_, _, _, _)
PrettyItems(a, i, depth) ==
    IF i > Len(a) THEN <<>>
    ELSE <<NewLine(depth)>> \o Pretty(a[i], depth)
            \o (IF i < Len(a) THEN <<Tok(",")>> ELSE <<>>)
            \o PrettyItems(a, i + 1, depth)

PrettyMembers(m, keys, i, depth) ==
    IF i > Len(keys) THEN <<>>
    ELSE <<NewLine(depth), StrTok(keys[i]), Tok(":")>> \o Pretty(m[keys[i]], depth)
            \o (IF i < Len(keys) THEN <<Tok(",")>> ELSE <<>>)
            \o PrettyMembers(m, keys, i + 1, depth)

Pretty(val, depth) ==
    CASE val.t = "bool" -> <<Tok(IF val.v THEN "true" ELSE "false")>>
      [] val.t = "str"  -> <<StrTok(val.v)>>
      [] val.t = "arr"  ->
            IF Len(val.v) = 0 THEN <<Tok("["), Tok("]")>>
            ELSE <<Tok("[")>> \o PrettyItems(val.v, 1, depth + 1)
                    \o <<NewLine(depth), Tok("]")>>
      [] val.t = "obj"  ->
            IF DOMAIN val.v = {} THEN <<Tok("{"), Tok("}")>>
            ELSE <<Tok("{")>>
                    \o PrettyMembers(val.v, SortedKeys(DOMAIN val.v), 1, depth + 1)
                    \o <<NewLine(depth), Tok("}")>>

to_string_pretty(val) == Pretty(val, 0)

\* The index of the first token at or after i that is not white space.
RECURSIVE SkipWs(_, _)
SkipWs(text, i) ==
    IF i <= Len(text) /\ text[i].p = "nl" THEN SkipWs(text, i + 1) ELSE i

\* Each parser returns the value read and the index after it.
RECURSIVE ParseValue(_, _)
RECURSIVE ParseItems(_, _, _)
RECURSIVE ParseMembers(_, _, _)
ParseItems(text, i, acc) ==
    LET item == ParseValue(text, i)
        j    == SkipWs(text, item.next)
    IN  IF text[j].p = ","
        THEN ParseItems(text, SkipWs(text, j + 1), Append(acc, item.v))
        ELSE [v |-> JArr(Append(acc, item.v)), next |-> j + 1]

ParseMembers(text, i, acc) ==
    LET key    == text[i].s
        colon  == SkipWs(text, i + 1)
        member == ParseValue(text, SkipWs(text, colon + 1))
        j      == SkipWs(text, member.next)
        map    == (key :> member.v) @@ acc
    IN  IF text[j].p = ","
        THEN ParseMembers(text, SkipWs(text, j + 1), map)
        ELSE [v |-> JObj(map), next |-> j + 1]

ParseValue(text, i) ==
    LET j == SkipWs(text, i)
        p == text[j].p
    IN  CASE p = "true"  -> [v |-> JBool(TRUE), next |-> j + 1]
          [] p = "false" -> [v |-> JBool(FALSE), next |-> j + 1]
          [] p = "str"   -> [v |-> JStr(text[j].s), next |-> j + 1]
          [] p = "["     ->
                LET k == SkipWs(text, j + 1)
                IN  IF text[k].p = "]" THEN [v |-> JArr(<<>>), next |-> k + 1]
                    ELSE ParseItems(text, k, <<>>)
          [] p = "{"     ->
                LET k == SkipWs(text, j + 1)
                IN  IF text[k].p = "}" THEN [v |-> JObj(EmptyMap), next |-> k + 1]
                    ELSE ParseMembers(text, k, EmptyMap)

from_str(text) == ParseValue(text, 1).v

(***************************************************************************)
(* get_type_schema::<T>()                                                  *)
(***************************************************************************)
\* RemoveRootMetadata without the second removal (fault: title is kept).
RemoveSchemaKeyOnly(schema_json) == Remove(schema_json, "$schema")

\* RemoveRootMetadata removing definitions as well (fault: one key too many).
RemoveMetadataAndDefinitions(schema_json) ==
    Remove(Remove(Remove(schema_json, "$schema"), "title"), "definitions")

\* obj.remove("$schema"); obj.remove("title")
RemoveRootMetadata(schema_json) == Remove(Remove(schema_json, "$schema"), "title")

get_type_schema(T) ==
    LET schema      == fix_value_schema(schema_for(T))
        schema_json == to_value(schema)
    IN  [ok |-> TRUE, text |-> to_string_pretty(RemoveRootMetadata(schema_json))]

(***************************************************************************)
(* The schema operations as a state machine.  In mode "derive" a caller    *)
(* asks for the schema of sType; in mode "fix" fix_value_schema is called  *)
(* on a root schema built by hand, as the unit tests do: sRootIn is the    *)
(* schema handed over and sRoot the schema after the call.                 *)
(***************************************************************************)
DefaultRootSchema ==
    [meta_schema |-> "", schema |-> DefaultSchemaObject, definitions |-> EmptyMap]

NoType == [name |-> "", fields |-> EmptyMap]

NoResult == [ok |-> FALSE, text |-> <<>>]

\* The property schemas the hand-built root schemas draw from.
PropSchemas ==
    {SchemaBool(TRUE), SchemaBool(FALSE), TypedSchema(<<"string">>),
     TypedSchema(<<"object">>), FieldSchema("SimpleStruct")}

HandBuiltObjects ==
    {NoObject} \cup
        {[some |-> TRUE, properties |-> f, required |-> {}] :
            f \in UNION {[FieldNames(n) -> PropSchemas] : n \in 0 .. MaxFields}}

HandBuiltDefinitions ==
    {EmptyMap,
     "StructWithValue" :> SchemaObj(StructSchema(Shapes["StructWithValue"]))}

HandBuiltRoots ==
    {[DefaultRootSchema EXCEPT !.schema.object = ob, !.definitions = d] :
        ob \in HandBuiltObjects, d \in HandBuiltDefinitions}
      \cup {schema_for([name |-> n, fields |-> Shapes[n]]) : n \in StructNames}

SchemaInit ==
    /\ sPc = "idle"
    /\ sResult = NoResult
    /\ \/ /\ sMode = "derive"
          /\ sType \in RootTypes
          /\ sRootIn = DefaultRootSchema
          /\ sRoot = DefaultRootSchema
       \/ /\ sMode = "fix"
          /\ sType = NoType
          /\ sRootIn \in HandBuiltRoots
          /\ sRoot = sRootIn

SchemaIdle ==
    /\ sMode = "off"
    /\ sPc = "off"
    /\ sType = NoType
    /\ sRootIn = DefaultRootSchema
    /\ sRoot = DefaultRootSchema
    /\ sResult = NoResult

GetTypeSchema ==
    /\ sMode = "derive"
    /\ sPc = "idle"
    /\ sResult' = get_type_schema(sType)
    /\ sPc' = "done"
    /\ UNCHANGED <<sMode, sType, sRootIn, sRoot, rangeVars, wrapperVars, concVars>>

FixValueSchema ==
    /\ sMode = "fix"
    /\ sPc = "idle"
    /\ sRoot' = fix_value_schema(sRoot)
    /\ sPc' = "done"
    /\ UNCHANGED <<sMode, sType, sRootIn, sResult, rangeVars, wrapperVars, concVars>>

(***************************************************************************)
(* remove_json_wrapper.  A string is a sequence of characters.             *)
(***************************************************************************)
StartsWithAt(s, i, pat) ==
    /\ i + Len(pat) - 1 <= Len(s)
    /\ \A k \in 1 .. Len(pat) : s[i + k - 1] = pat[k]

\* str::replace: every non-overlapping match of from, found left to right.
RECURSIVE ReplaceFrom(_, _, _, _)
ReplaceFrom(s, i, from, to) ==
    IF i > Len(s) THEN <<>>
    ELSE IF StartsWithAt(s, i, from)
         THEN to \o ReplaceFrom(s, i + Len(from), from, to)
         ELSE <<s[i]>> \o ReplaceFrom(s, i + 1, from, to)

\* str::replacen(from, to, 1) (fault: only the first match is replaced).
RECURSIVE ReplaceFirstFrom(_, _, _, _)
ReplaceFirstFrom(s, i, from, to) ==
    IF i > Len(s) THEN <<>>
    ELSE IF StartsWithAt(s, i, from)
         THEN to \o SubSeq(s, i + Len(from), Len(s))
         ELSE <<s[i]>> \o ReplaceFirstFrom(s, i + 1, from, to)

ReplaceFirst(s, from, to) == ReplaceFirstFrom(s, 1, from, to)

Replace(s, from, to) == ReplaceFrom(s, 1, from, to)

JsonTag == <<"j", "s", "o", "n", "\n">>

\* The character U+0060, which a TLA+ string cannot hold.
Backtick == "backtick"

Fence == <<Backtick, Backtick, Backtick>>

remove_json_wrapper(json_response) ==
    LET text_no_json == Replace(json_response, JsonTag, <<>>)
    IN  Replace(text_no_json, Fence, <<>>)

\* Whether pat occurs in s.
Contains(s, pat) == \E i \in 1 .. Len(s) : StartsWithAt(s, i, pat)

(***************************************************************************)
(* A caller of remove_json_wrapper that sanitizes a response and then      *)
(* sanitizes the result again.                                             *)
(***************************************************************************)
MaxPieces == 3

MaxSanitize == 2

\* The pieces responses are made of: the two patterns, parts of them, and
\* JSON text.
Pieces ==
    {JsonTag, Fence, <<"j", "s">>, <<"o", "n", "\n">>, <<Backtick>>,
     <<Backtick, Backtick>>,
     <<"{", "}">>, <<"\n">>}

RECURSIVE Responses(_)
Responses(n) ==
    IF n = 0 THEN {<<>>}
    ELSE LET shorter == Responses(n - 1)
         IN  shorter \cup {r \o p : r \in shorter, p \in Pieces}

WrapperInit ==
    /\ wResponse \in Responses(MaxPieces)
    /\ wText = wResponse
    /\ wPrevious = wResponse
    /\ wCalls = 0

WrapperIdle ==
    /\ wResponse = <<>>
    /\ wText = <<>>
    /\ wPrevious = <<>>
    /\ wCalls = 0

RemoveJsonWrapper ==
    /\ wCalls < MaxSanitize
    /\ wPrevious' = wText
    /\ wText' = remove_json_wrapper(wText)
    /\ wCalls' = wCalls + 1
    /\ UNCHANGED <<wResponse, rangeVars, schemaVars, concVars>>

(***************************************************************************)
(* get_tokenizer.  tiktoken_rs maps a model name to an encoding, or to     *)
(* none; constructing an encoding succeeds when its data is available      *)
(* (encodingData) and then yields a new CoreBPE, which the heap records:   *)
(* a tokenizer is [ok, enc, id], id its place on the heap.                 *)
(***************************************************************************)
Models == {"gpt-4-32k", "gpt-4o", "mistral-large-latest"}

Encodings == {"cl100k_base", "o200k_base"}

ModelEncoding ==
    [m \in Models |->
        CASE m = "gpt-4-32k" -> "cl100k_base"
          [] m = "gpt-4o"    -> "o200k_base"
          [] OTHER           -> "none"]

TokenizerErr == [ok |-> FALSE, enc |-> "", id |-> 0]

\* Constructing encoding enc as the next object of the heap.
Construct(enc, data, heap) ==
    IF enc \in data THEN [ok |-> TRUE, enc |-> enc, id |-> Len(heap) + 1]
    ELSE TokenizerErr

get_bpe_from_model(model, data, heap) ==
    IF ModelEncoding[model] = "none" THEN TokenizerErr
    ELSE Construct(ModelEncoding[model], data, heap)

cl100k_base(data, heap) == Construct("cl100k_base", data, heap)

\* FallbackIfErr without the fallback (fault: the lookup's error is returned).
KeepLookupResult(tokenizer, data, heap) == tokenizer

\* if let Err(_error) = tokenizer { cl100k_base() } else { tokenizer }
FallbackIfErr(tokenizer, data, heap) ==
    IF ~tokenizer.ok THEN cl100k_base(data, heap) ELSE tokenizer

get_tokenizer(model, data, heap) ==
    FallbackIfErr(get_bpe_from_model(model, data, heap), data, heap)

\* The heap after a construction that returned r.
Allocate(heap, r) == IF r.ok /\ r.id > Len(heap) THEN Append(heap, r.enc) ELSE heap

(***************************************************************************)
(* Concurrent callers: each thread makes one call of get_tokenizer,        *)
(* get_type_schema or map_to_range, one statement at a time, in any        *)
(* interleaving with the others.  A thread's locals are its own; the heap  *)
(* and the encoding data are all the threads share.                        *)
(***************************************************************************)
NThreads == 2

Threads == 1 .. NThreads

Calls ==
    {[op |-> "get_tokenizer", arg |-> m] : m \in Models}
      \cup {[op |-> "get_type_schema", arg |-> [name |-> n, fields |-> Shapes[n]]] :
                n \in {"SimpleStruct", "StructWithValue"}}
      \cup {[op |-> "map_to_range", arg |-> a] :
                a \in {[min |-> 10, max |-> 20, target |-> 50],
                       [min |-> 0, max |-> 100, target |-> 3000]}}

DataSets == {Encodings, {"o200k_base"}, {"cl100k_base"}, {}}

ConcInit ==
    /\ encodingData \in DataSets
    /\ cHeap = <<>>
    /\ tCall \in [Threads -> Calls]
    /\ tPc = [t \in Threads |-> "start"]
    /\ tLocal = [t \in Threads |-> FALSE]
    /\ tResult = [t \in Threads |-> FALSE]

ConcIdle ==
    /\ encodingData = {}
    /\ cHeap = <<>>
    /\ tCall = <<>>
    /\ tPc = <<>>
    /\ tLocal = <<>>
    /\ tResult = <<>>

Step(t, op, from, to, local) ==
    /\ tCall[t].op = op
    /\ tPc[t] = from
    /\ tPc' = [tPc EXCEPT ![t] = to]
    /\ tLocal' = [tLocal EXCEPT ![t] = local]
    /\ UNCHANGED <<encodingData, tCall, rangeVars, schemaVars, wrapperVars>>

Return(t, op, from, result) ==
    /\ tCall[t].op = op
    /\ tPc[t] = from
    /\ tPc' = [tPc EXCEPT ![t] = "done"]
    /\ tResult' = [tResult EXCEPT ![t] = result]
    /\ UNCHANGED <<encodingData, tCall, tLocal, rangeVars, schemaVars, wrapperVars>>

\* let tokenizer = get_bpe_from_model(model.as_str());
TokLookup(t) ==
    LET tokenizer == get_bpe_from_model(tCall[t].arg, encodingData, cHeap)
    IN  /\ Step(t, "get_tokenizer", "start", "looked_up", tokenizer)
        /\ cHeap' = Allocate(cHeap, tokenizer)
        /\ UNCHANGED tResult

\* TokReturn with a process-wide cache of the fallback encoding (fault: a
\* CoreBPE another call constructed is handed out again).
TokReturnCached(t) ==
    LET cached == {i \in 1 .. Len(cHeap) : cHeap[i] = "cl100k_base"}
        result == IF ~tLocal[t].ok /\ cached # {}
                  THEN [ok |-> TRUE, enc |-> "cl100k_base",
                        id |-> CHOOSE i \in cached : TRUE]
                  ELSE FallbackIfErr(tLocal[t], encodingData, cHeap)
    IN  /\ Return(t, "get_tokenizer", "looked_up", result)
        /\ cHeap' = Allocate(cHeap, result)

\* if let Err(_error) = tokenizer { cl100k_base() } else { tokenizer }
TokReturn(t) ==
    LET result == FallbackIfErr(tLocal[t], encodingData, cHeap)
    IN  /\ Return(t, "get_tokenizer", "looked_up", result)
        /\ cHeap' = Allocate(cHeap, result)

\* let mut schema = schema_for!(T);
SchemaGenerate(t) ==
    /\ Step(t, "get_type_schema", "start", "generated", schema_for(tCall[t].arg))
    /\ UNCHANGED <<cHeap, tResult>>

\* fix_value_schema(&mut schema);
SchemaFix(t) ==
    /\ Step(t, "get_type_schema", "generated", "fixed", fix_value_schema(tLocal[t]))
    /\ UNCHANGED <<cHeap, tResult>>

\* let mut schema_json: Value = serde_json::to_value(&schema)?;
SchemaToJson(t) ==
    /\ Step(t, "get_type_schema", "fixed", "json", to_value(tLocal[t]))
    /\ UNCHANGED <<cHeap, tResult>>

\* obj.remove("$schema"); obj.remove("title");
SchemaStrip(t) ==
    /\ Step(t, "get_type_schema", "json", "stripped", RemoveRootMetadata(tLocal[t]))
    /\ UNCHANGED <<cHeap, tResult>>

\* Ok(serde_json::to_string_pretty(&schema_json)?)
SchemaReturn(t) ==
    /\ Return(t, "get_type_schema", "stripped",
              [ok |-> TRUE, text |-> to_string_pretty(tLocal[t])])
    /\ UNCHANGED cHeap

\* let capped_target = target.min(100);
RangeCap(t) ==
    /\ Step(t, "map_to_range", "start", "capped", CapTarget(tCall[t].arg.target))
    /\ UNCHANGED <<cHeap, tResult>>

\* range, percentage and the result
RangeReturn(t) ==
    LET min        == tCall[t].arg.min
        max        == tCall[t].arg.max
        range      == FSub(U32ToF32(max), U32ToF32(min))
        percentage == FDiv(U32ToF32(tLocal[t]), U32ToF32(PercentCap))
    IN  /\ Return(t, "map_to_range", "capped",
                  FAdd(U32ToF32(min), FMul(range, percentage)))
        /\ UNCHANGED cHeap

(***************************************************************************)
(* The specifications: one per component, the others at rest.              *)
(***************************************************************************)
Init == ConcInit /\ RangeIdle /\ SchemaIdle /\ WrapperIdle

Next ==
    \E t \in Threads :
        \/ TokLookup(t)
        \/ TokReturn(t)
        \/ SchemaGenerate(t)
        \/ SchemaFix(t)
        \/ SchemaToJson(t)
        \/ SchemaStrip(t)
        \/ SchemaReturn(t)
        \/ RangeCap(t)
        \/ RangeReturn(t)

Spec == Init /\ [][Next]_vars

InitRange == RangeInit /\ SchemaIdle /\ WrapperIdle /\ ConcIdle

NextRange == \E target \in Targets : MapToRange(target)

SpecRange == InitRange /\ [][NextRange]_vars

InitSchema == SchemaInit /\ RangeIdle /\ WrapperIdle /\ ConcIdle

NextSchema == GetTypeSchema \/ FixValueSchema

SpecSchema == InitSchema /\ [][NextSchema]_vars

InitWrapper == WrapperInit /\ RangeIdle /\ SchemaIdle /\ ConcIdle

NextWrapper == RemoveJsonWrapper

SpecWrapper == InitWrapper /\ [][NextWrapper]_vars

(***************************************************************************)
(* The claims.                                                             *)
(***************************************************************************)
DeriveDone == sMode = "derive" /\ sPc = "done"

\* The schema text get_type_schema returned, parsed as JSON.
Parsed == from_str(sResult.text).v

\* A JSON schema node that declares type "object".
IsObjectNode(j) == j.t = "obj" /\ "type" \in DOMAIN j.v /\ j.v["type"] = JStr("object")

OpaqueFields(fields) == {f \in DOMAIN fields : fields[f] = "Value"}

\* C1 (as claimed): in the schema get_type_schema returns, every property of
\* an opaque value (serde_json::Value), at the root and in every shape under
\* definitions, is a node of type "object", and no property anywhere is the
\* accept-anything placeholder true.
C1_NoPlaceholderAtAnyLevel ==
    DeriveDone =>
        /\ \A f \in OpaqueFields(sType.fields) :
              IsObjectNode(Parsed["properties"].v[f])
        /\ "definitions" \in DOMAIN Parsed =>
              \A n \in DOMAIN Parsed["definitions"].v :
                  LET props == Parsed["definitions"].v[n].v["properties"].v
                  IN  /\ \A g \in DOMAIN props : props[g] # JBool(TRUE)
                      /\ \A g \in OpaqueFields(Shapes[n]) : IsObjectNode(props[g])

\* C2: whenever get_type_schema returns Ok, the returned text parsed as JSON
\* has no top-level "$schema" and no top-level "title", and every other
\* top-level key of the generated schema (type, properties, required,
\* definitions) is still there.
C2_RootMetadataStripped ==
    DeriveDone =>
        LET generated == to_value(schema_for(sType)).v
            fields    == sType.fields
        IN  /\ sResult.ok
            /\ "$schema" \notin DOMAIN Parsed
            /\ "title" \notin DOMAIN Parsed
            /\ DOMAIN generated \ {"$schema", "title"} \subseteq DOMAIN Parsed
            /\ "type" \in DOMAIN Parsed
            /\ DOMAIN fields # {} => "properties" \in DOMAIN Parsed
            /\ (\E f \in DOMAIN fields : fields[f] # "OptString")
                  => "required" \in DOMAIN Parsed
            /\ StructsOf(fields) # {} => "definitions" \in DOMAIN Parsed

C2_Witness ==
    /\ DeriveDone
    /\ {"$schema", "title"} \subseteq DOMAIN to_value(schema_for(sType)).v
    /\ DOMAIN Parsed = {"type", "properties", "required", "definitions"}

\* The number of times name is written as a key in the text.
KeyCount(text, name) ==
    Cardinality({i \in 1 .. Len(text) - 1 :
                    text[i] = StrTok(name) /\ text[i + 1].p = ":"})

\* Every field of kind struct among fields is, in props, exactly a reference
\* to that struct's definition.
RefsResolve(fields, props, definitions) ==
    \A f \in DOMAIN fields :
        fields[f] \in StructNames =>
            /\ props[f] = JObj("$ref" :> JStr("#/definitions/" \o fields[f]))
            /\ fields[f] \in DOMAIN definitions
            /\ DOMAIN definitions[fields[f]].v["properties"].v
                  = DOMAIN Shapes[fields[f]]

\* C7: in the schema get_type_schema returns, every property whose type is a
\* named struct is a $ref to "#/definitions/<name>", at the root and inside
\* the definitions; the struct is written once under definitions, however
\* many properties refer to it, and its definition's properties are the
\* struct's fields.
C7_NestedShapesByReference ==
    (DeriveDone /\ StructsOf(sType.fields) # {}) =>
        /\ "definitions" \in DOMAIN Parsed
        /\ LET definitions == Parsed["definitions"].v
           IN  /\ RefsResolve(sType.fields, Parsed["properties"].v, definitions)
               /\ \A n \in DOMAIN definitions :
                     /\ n \in StructNames
                     /\ KeyCount(sResult.text, n) = 1
                     /\ RefsResolve(Shapes[n], definitions[n].v["properties"].v,
                                    definitions)

C7_Witness ==
    /\ DeriveDone
    /\ \E f, g \in DOMAIN sType.fields :
          f # g /\ sType.fields[f] = "NestedStruct" /\ sType.fields[g] = "NestedStruct"
    /\ DOMAIN Parsed["definitions"].v = {"NestedStruct", "SimpleStruct"}

FixDone == sMode = "fix" /\ sPc = "done"

RangeFormula(min, max, t) ==
    FAdd(U32ToF32(min),
         FMul(FSub(U32ToF32(max), U32ToF32(min)), FDiv(U32ToF32(t), U32ToF32(100))))

RangeDone == rPc = "done"

\* C4 (as claimed): for min <= max the result is min + (max - min) * (t / 100)
\* with t = target capped at 100, and every target of 100 or more gives max.
C4_Original ==
    (RangeDone /\ rMin <= rMax) =>
        /\ rResult = RangeFormula(rMin, rMax, IF rTarget <= 100 THEN rTarget ELSE 100)
        /\ rTarget >= 100 => rResult = U32ToF32(rMax)

\* C4 (amended): for min <= max the result is the f32 evaluation of
\* min + (max - min) * (t / 100) with t = target capped at 100; two targets of
\* 100 or more give the same result; target 0 gives min as f32; and for
\* max <= 2^24 a target of 100 or more gives exactly max.  Where the
\* percentage is exact in f32 (a multiple of 25) and max <= 2^22, the result
\* is exactly the real number min + (max - min) * t / 100.
C4_MapToRangeFormula ==
    (RangeDone /\ rMin <= rMax) =>
        /\ rResult = RangeFormula(rMin, rMax, IF rTarget <= 100 THEN rTarget ELSE 100)
        /\ (rPrev.valid /\ rPrev.target >= 100 /\ rTarget >= 100)
              => rResult = rPrev.result
        /\ rTarget = 0 => rResult = U32ToF32(rMin)
        /\ (rTarget >= 100 /\ rMax <= TwoTo24) => rResult = Reduce(FALSE, rMax, 0)
        /\ (rTarget < 100 /\ rTarget % 25 = 0 /\ rMax <= TwoTo24 \div 4)
              => rResult = Reduce(FALSE, 4 * rMin + (rMax - rMin) * (rTarget \div 25), -2)

C4_Witness ==
    /\ RangeDone
    /\ rMin = 10 /\ rMax = 20
    /\ rTarget = 200
    /\ rPrev.valid /\ rPrev.target = 100
    /\ rResult = Reduce(FALSE, 20, 0)

\* C5 (as claimed): for every min and every target, map_to_range(min, min,
\* target) is exactly the number min.
C5_Original ==
    (RangeDone /\ rMin = rMax) => rResult = Reduce(FALSE, rMin, 0)

\* C5 (amended): map_to_range(min, min, target) is min as f32 for every
\* target, which is exactly the number min for every min <= 2^24.
C5_DegenerateRange ==
    (RangeDone /\ rMin = rMax) =>
        /\ rResult = U32ToF32(rMin)
        /\ rMin <= TwoTo24 => rResult = Reduce(FALSE, rMin, 0)

C5_Witness ==
    /\ RangeDone
    /\ rMin = rMax /\ rMin = 10
    /\ rTarget = 3000
    /\ rPrev.valid /\ rPrev.target = 50 /\ rPrev.result = rResult

\* C6: for min < max, of two calls the one with the larger target never
\* returns the smaller result.
C6_MonotonicInTarget ==
    (RangeDone /\ rPrev.valid /\ rMin < rMax /\ rPrev.target <= rTarget)
        => FLe(rPrev.result, rResult)

C6_Witness ==
    /\ RangeDone /\ rPrev.valid
    /\ rMin < rMax
    /\ rPrev.target = 33 /\ rTarget = 50
    /\ rPrev.result # rResult
    /\ FLe(rPrev.result, rResult)

\* C10 (as claimed): the text remove_json_wrapper returns contains neither
\* the fence nor "json\n", and sanitizing it again changes nothing.
C10_Original ==
    /\ wCalls >= 1 => ~Contains(wText, Fence) /\ ~Contains(wText, JsonTag)
    /\ wCalls >= 2 => wText = wPrevious

\* C10 (amended): the text remove_json_wrapper returns never contains the
\* fence; sanitizing it again changes nothing whenever it contains no
\* "json\n".
C10_NoFenceLeft ==
    /\ wCalls >= 1 => ~Contains(wText, Fence)
    /\ (wCalls >= 2 /\ ~Contains(wPrevious, JsonTag)) => wText = wPrevious

C10_Witness ==
    /\ wCalls = 2
    /\ Contains(wResponse, Fence)
    /\ Contains(wResponse, JsonTag)
    /\ wText = wPrevious
    /\ wText = <<"{", "}">>

TokenizerDone(t) == tCall[t].op = "get_tokenizer" /\ tPc[t] = "done"

\* C3: get_tokenizer returns the model's own tokenizer when the lookup by
\* model succeeds; when it fails (the model is unknown, or its encoding cannot
\* be constructed) it returns what constructing cl100k_base returns; so it is
\* an error only if the lookup failed and cl100k_base cannot be constructed.
C3_FallbackOnUnknownModel ==
    \A t \in Threads :
        TokenizerDone(t) =>
            LET enc      == ModelEncoding[tCall[t].arg]
                native   == enc # "none" /\ enc \in encodingData
                fallback == "cl100k_base" \in encodingData
            IN  /\ native => tResult[t].ok /\ tResult[t].enc = enc
                /\ (~native /\ fallback)
                      => tResult[t].ok /\ tResult[t].enc = "cl100k_base"
                /\ ~tResult[t].ok <=> (~native /\ ~fallback)

C3_Witness ==
    \E t \in Threads :
        /\ TokenizerDone(t)
        /\ ModelEncoding[tCall[t].arg] = "none"
        /\ tResult[t].ok
        /\ tResult[t].enc = "cl100k_base"

\* C8: in every interleaving, a finished call has the result the same call
\* has when it runs alone, and every tokenizer returned is an object of its
\* own: no two calls return the same CoreBPE.
C8_CallsAreIndependent ==
    \A t \in Threads :
        tPc[t] = "done" =>
            LET arg == tCall[t].arg
            IN  CASE tCall[t].op = "get_type_schema" ->
                        tResult[t] = get_type_schema(arg)
                  [] tCall[t].op = "map_to_range" ->
                        tResult[t] = map_to_range(arg.min, arg.max, arg.target)
                  [] tCall[t].op = "get_tokenizer" ->
                        LET alone == get_tokenizer(arg, encodingData, <<>>)
                        IN  /\ tResult[t].ok = alone.ok
                            /\ tResult[t].enc = alone.enc
                            /\ tResult[t].ok =>
                                  /\ tResult[t].id \in 1 .. Len(cHeap)
                                  /\ cHeap[tResult[t].id] = tResult[t].enc
                                  /\ \A u \in Threads \ {t} :
                                        (TokenizerDone(u) /\ tResult[u].ok)
                                            => tResult[u].id # tResult[t].id

C8_Witness ==
    /\ \A t \in Threads : tPc[t] = "done"
    /\ \E t, u \in Threads :
          /\ t # u
          /\ tCall[t] = tCall[u]
          /\ tCall[t].op = "get_tokenizer"
          /\ ModelEncoding[tCall[t].arg] = "none"
          /\ tResult[t].ok /\ tResult[u].ok
          /\ tResult[t].id # tResult[u].id

====
